---------------------------- MODULE Spec2Model ----------------------------
(***************************************************************************)
(* Chunk streaming of the mekeni voxel engine: the ChunkManager of         *)
(* src/frame.js (lines 40-114) with the entity registry of the same file   *)
(* (lines 1-21), as a state machine whose steps are the callbacks the      *)
(* JavaScript event loop runs to completion: a loadChunksAround call, a    *)
(* reset call, and the last continuation of a generation task              *)
(* (_generateChunk), which either inserts the chunk or throws.             *)
(***************************************************************************)
EXTENDS Integers, Sequences, FiniteSets, Bags

(***************************************************************************)
(* Program constants (src/frame.js:44-46).  The view distance of the       *)
(* source is 2; the model scales the radius of the view square down, and   *)
(* every property below is stated for the radius VIEW_DISTANCE, whatever   *)
(* its value.                                                              *)
(***************************************************************************)
CHUNK_SIZE == 32
VIEW_DISTANCE == 1

(***************************************************************************)
(* Bounds of the model.                                                    *)
(***************************************************************************)
\* entity ids handed out in one behaviour (nextEntityId grows without bound)
MaxEntities == 2
\* 'Failed to generate chunk' errors logged in one behaviour
MaxErrors == 1
\* generation tasks whose elevation query never returns
MaxStalled == 1

\* Viewpoints (world coordinates) handed to loadChunksAround.
Far == CHUNK_SIZE * 2 * VIEW_DISTANCE
Views == {<<-1, 0>>, <<Far - 1, Far>>}

\* Chunks whose generation may throw, and chunks whose elevation query may stall.
Throwing == {<<-1, 0>>}
Stalling == {<<0, 1>>}

VARIABLES
    chunks,         \* this.chunks: key -> {entity, chunk, mesh}
    loadingChunks,  \* this.loadingChunks: keys marked in-flight
    tasks,          \* bag of unfinished _generateChunk calls [chunkX, chunkZ, key]
    stalled,        \* unfinished tasks whose elevation query never returns
    scene,          \* meshes in this.scene
    disposed,       \* ids of the meshes whose geometry and material were disposed
    nextEntityId,   \* frame.js: let nextEntityId
    world,          \* frame.js: world.entities, world.components
    errors,         \* number of console.error('Failed to generate chunk:') lines
    hist,           \* history: the last manager call and what happened since
    atCall,         \* history: the keys loaded when a recorded call began
    last,           \* history: the last step taken
    shape,          \* VoxelChunk: size, maxHeight, chunkX, chunkZ, elevationService
    voxelData,      \* VoxelChunk: this.data, the Uint8Array (cell index -> block id)
    voxelMesh,      \* VoxelChunk: this.mesh (NoMesh for null)
    released,       \* geometries and materials on which dispose() was called
    cursor,         \* the column each running _initTerrain pass is waiting on
    service,        \* the elevation service: what it answers for each column
    noise,          \* this.noise: the values it has returned, by column
    height,         \* history: the height each pass gave each column
    access,         \* history: the array accesses made, [op, index]
    earlier,        \* history: the grid of the chunk generated before a reload
    thrown,         \* history: the errors that reached the caller
    input,          \* the arguments of the function applied
    output,         \* what it returned (Pending before the call)
    fields,         \* ElevationService: the fields of the object
    queries         \* history: the queries made of the service, with their results

managerVars == <<chunks, loadingChunks, tasks, stalled, scene, disposed,
                 nextEntityId, world, errors, hist, atCall, last>>

voxelVars == <<shape, voxelData, voxelMesh, released, cursor, service, noise, height,
               access, earlier, thrown>>

pureVars == <<input, output, fields, queries>>

vars == <<managerVars, voxelVars, pureVars>>

-----------------------------------------------------------------------------
(***************************************************************************)
(* Chunk keys: the template string `${cx},${cz}` and its parse             *)
(* key.split(',').map(Number).  A string is a sequence of characters.      *)
(***************************************************************************)
Digits == <<"0", "1", "2", "3", "4", "5", "6", "7", "8", "9">>

RECURSIVE NatToString(_)
NatToString(n) ==
    IF n < 10 THEN <<Digits[n + 1]>>
    ELSE NatToString(n \div 10) \o <<Digits[(n % 10) + 1]>>

\* String(n) of an integer
IntToString(n) == IF n < 0 THEN <<"-">> \o NatToString(-n) ELSE NatToString(n)

chunkKey(cx, cz) == IntToString(cx) \o <<",">> \o IntToString(cz)

RECURSIVE Split(_)
Split(s) ==
    IF \E i \in 1..Len(s) : s[i] = ","
    THEN LET i == CHOOSE j \in 1..Len(s) :
                     /\ s[j] = ","
                     /\ \A m \in 1..(j - 1) : s[m] # ","
         IN  <<SubSeq(s, 1, i - 1)>> \o Split(SubSeq(s, i + 1, Len(s)))
    ELSE <<s>>

DigitValue(c) == (CHOOSE d \in 1..10 : Digits[d] = c) - 1

RECURSIVE DigitsValue(_)
DigitsValue(s) ==
    IF Len(s) = 0 THEN 0
    ELSE 10 * DigitsValue(SubSeq(s, 1, Len(s) - 1)) + DigitValue(s[Len(s)])

\* Number(s) of a decimal integer literal
Number(s) ==
    IF Len(s) > 0 /\ s[1] = "-" THEN 0 - DigitsValue(Tail(s)) ELSE DigitsValue(s)

\* const [ccx, ccz] = key.split(',').map(Number)
ParseKey(key) == LET parts == Split(key) IN <<Number(parts[1]), Number(parts[2])>>

Abs(n) == IF n < 0 THEN 0 - n ELSE n

\* A quotient rounded toward zero, as (a / b) | 0 would be.
Floor_Truncates(a, b) == IF a < 0 THEN 0 - ((0 - a) \div b) ELSE a \div b

\* Math.floor(a / b) for b > 0
Floor(a, b) == a \div b

-----------------------------------------------------------------------------
EmptyMap == [k \in {} |-> 0]

MapSet(m, k, v) == [j \in (DOMAIN m) \cup {k} |-> IF j = k THEN v ELSE m[j]]

MapRestrict(m, ks) == [j \in ks |-> m[j]]

NoCall == [call |-> "none", at |-> <<>>, view |-> <<>>, failed |-> FALSE]

\* The record kept of the last step: its kind, the key or viewpoint it was
\* about, the keys it started a task for, the meshes it took off the scene,
\* and (for a call) the history as it stood when the call began.
Step(op, arg, started, removed, prev) ==
    [op |-> op, arg |-> arg, started |-> started, removed |-> removed, prev |-> prev]

NoStep == Step("init", <<>>, <<>>, {}, NoCall)

\* new ChunkManager(scene, elevationService), frame.js:49-54, and the empty
\* registry, frame.js:1-7
InitManager ==
    /\ chunks = EmptyMap
    /\ loadingChunks = {}
    /\ tasks = EmptyBag
    /\ stalled = {}
    /\ scene = {}
    /\ disposed = {}
    /\ nextEntityId = 0
    /\ world = [entities |-> {}, components |-> EmptyMap]
    /\ errors = 0
    /\ hist = NoCall
    /\ atCall = {}
    /\ last = NoStep

\* no VoxelChunk under study
NoAccess == [op |-> "none", index |-> 0, checked |-> TRUE]

NoMesh == [geometry |-> 0, quads |-> {}]

Pending == [kind |-> "pending"]

NoVoxel ==
    /\ shape = [size |-> 0, maxHeight |-> 0, chunkX |-> 0, chunkZ |-> 0,
                elevationService |-> FALSE]
    /\ voxelData = <<>>
    /\ voxelMesh = NoMesh
    /\ released = {}
    /\ cursor = <<>>
    /\ service = <<>>
    /\ noise = <<>>
    /\ height = <<>>
    /\ access = NoAccess
    /\ earlier = <<>>
    /\ thrown = {}

\* no function applied
\* no query made of an elevation service
NoQueries == fields = <<>> /\ queries = <<>>

NoPure == input = <<>> /\ output = Pending /\ NoQueries

Init == InitManager /\ NoVoxel /\ NoPure

-----------------------------------------------------------------------------
(***************************************************************************)
(* loadChunksAround(x, z), frame.js:60-83.  The function holds no await:   *)
(* it runs to its end in one step.  Each _generateChunk it calls runs up   *)
(* to its first await (the first column's elevation query, inside          *)
(* _initTerrain) and leaves an unfinished task behind.                     *)
(***************************************************************************)
Side == 2 * VIEW_DISTANCE + 1

\* the i-th (1-based) pair (dx, dz) of the nested loops: dx outer, dz inner
LoopDx(i) == ((i - 1) \div Side) - VIEW_DISTANCE
LoopDz(i) == ((i - 1) % Side) - VIEW_DISTANCE

Task(chunkX, chunkZ, key) == [chunkX |-> chunkX, chunkZ |-> chunkZ, key |-> key]

\* A loop body that tests the loaded map alone.
NeedsTask_IgnoresInFlight(key, loading) == key \notin DOMAIN chunks

\* !this.chunks.has(key) && !this.loadingChunks.has(key)  (frame.js:68)
NeedsTask(key, loading) == key \notin DOMAIN chunks /\ key \notin loading

\* One iteration of the inner loop body (frame.js:67-71) on the loop state st.
LoadStep(st, cx, cz, i) ==
    LET key == chunkKey(cx + LoopDx(i), cz + LoopDz(i)) IN
    IF NeedsTask(key, st.loading)
    THEN [loading |-> st.loading \cup {key},
          tasks   |-> st.tasks (+) SetToBag({Task(cx + LoopDx(i), cz + LoopDz(i), key)}),
          started |-> Append(st.started, key)]
    ELSE st

RECURSIVE LoadLoop(_, _, _, _)
LoadLoop(st, cx, cz, i) ==
    IF i > Side * Side THEN st
    ELSE LoadLoop(LoadStep(st, cx, cz, i), cx, cz, i + 1)

\* An unload test that never fires.
Distant_Never(key, cx, cz) == FALSE

\* An unload test that also drops the chunks on the border of the square.
Distant_Inclusive(key, cx, cz) ==
    LET c == ParseKey(key) IN
    Abs(c[1] - cx) >= VIEW_DISTANCE \/ Abs(c[2] - cz) >= VIEW_DISTANCE

\* The condition of the unload loop (frame.js:77-78).
Distant(key, cx, cz) ==
    LET c == ParseKey(key) IN
    Abs(c[1] - cx) > VIEW_DISTANCE \/ Abs(c[2] - cz) > VIEW_DISTANCE

LoadChunksAround(x, z) ==
    LET cx == Floor(x, CHUNK_SIZE)
        cz == Floor(z, CHUNK_SIZE)
        st == LoadLoop([loading |-> loadingChunks, tasks |-> tasks, started |-> <<>>],
                       cx, cz, 1)
        gone == {key \in DOMAIN chunks : Distant(key, cx, cz)}
    IN  /\ loadingChunks' = st.loading
        /\ tasks' = st.tasks
        /\ scene' = scene \ {chunks[key].mesh : key \in gone}
        /\ chunks' = MapRestrict(chunks, (DOMAIN chunks) \ gone)
        /\ hist' = [call |-> "load", at |-> <<x, z>>, view |-> <<cx, cz>>,
                    failed |-> FALSE]
        /\ last' = Step("load", <<x, z>>, st.started,
                         {chunks[key].mesh : key \in gone}, hist)
        /\ UNCHANGED <<stalled, disposed, nextEntityId, world, errors>>

\* A reset that takes the meshes off the scene and keeps the map.
Reset_KeepsMap ==
    /\ scene' = scene \ {chunks[key].mesh : key \in DOMAIN chunks}
    /\ hist' = [hist EXCEPT !.call = "reset", !.failed = FALSE]
    /\ last' = Step("reset", <<>>, <<>>, {chunks[key].mesh : key \in DOMAIN chunks},
                    NoCall)
    /\ UNCHANGED <<chunks, loadingChunks, tasks, stalled, disposed, nextEntityId,
                   world, errors>>

(***************************************************************************)
(* reset(), frame.js:105-112.                                              *)
(***************************************************************************)
Reset ==
    /\ scene' = scene \ {chunks[key].mesh : key \in DOMAIN chunks}
    /\ chunks' = EmptyMap
    /\ hist' = [hist EXCEPT !.call = "reset", !.failed = FALSE]
    /\ last' = Step("reset", <<>>, <<>>, {chunks[key].mesh : key \in DOMAIN chunks},
                    NoCall)
    /\ UNCHANGED <<loadingChunks, tasks, stalled, disposed, nextEntityId, world, errors>>

-----------------------------------------------------------------------------
(***************************************************************************)
(* The entity registry, frame.js:9-21.                                     *)
(***************************************************************************)
addComponent(w, entity, component, data) ==
    LET comps == IF component \in DOMAIN w.components
                 THEN w.components
                 ELSE MapSet(w.components, component, EmptyMap)
    IN  [w EXCEPT !.components =
            MapSet(comps, component, MapSet(comps[component], entity, data))]

Unfinished(t) == t \in BagToSet(tasks)

\* Tasks run one behind the other: none resumes while one of them is stalled.
Runnable_Serial(t) == stalled = {}

\* A task resumes when the elevation query it awaits returns
\* (voxelChunk.js:28); each task awaits its own queries only.
Runnable(t) == t \notin stalled

\* A task that drops its chunk when the view has moved away meanwhile.
Insert_OnlyInView(m, key, entry) ==
    IF Abs(entry.chunk.chunkX - hist.view[1]) > VIEW_DISTANCE
       \/ Abs(entry.chunk.chunkZ - hist.view[2]) > VIEW_DISTANCE
    THEN m
    ELSE MapSet(m, key, entry)

\* this.chunks.set(key, { entity, chunk, mesh })  (frame.js:96)
Insert(m, key, entry) == MapSet(m, key, entry)

\* A task whose in-flight mark outlives it.
Release_Leaks(loading, key) == loading

\* finally { this.loadingChunks.delete(key) }  (frame.js:100-102)
Release(loading, key) == loading \ {key}

(***************************************************************************)
(* The last continuation of a generation task that succeeds,               *)
(* frame.js:88-97 and the finally block, 100-102: the awaited terrain pass *)
(* returns, the mesh is built and positioned, the entity registered, the   *)
(* chunk inserted and shown, the in-flight mark released.  The mesh is a   *)
(* new object: its identity is the number of the entity created with it.   *)
(***************************************************************************)
Succeed(t) ==
    /\ Unfinished(t)
    /\ Runnable(t)
    /\ LET entity == nextEntityId
           mesh == [id |-> entity,
                    position |-> <<t.chunkX * CHUNK_SIZE, 0, t.chunkZ * CHUNK_SIZE>>]
           chunk == [chunkX |-> t.chunkX, chunkZ |-> t.chunkZ, mesh |-> entity]
       IN  /\ nextEntityId' = nextEntityId + 1
           /\ world' = addComponent(
                          addComponent([world EXCEPT !.entities = @ \cup {entity}],
                                       entity, "Transform", [mesh |-> mesh]),
                          entity, "VoxelData", [chunk |-> chunk])
           /\ chunks' = Insert(chunks, t.key,
                               [entity |-> entity, chunk |-> chunk, mesh |-> mesh])
           /\ scene' = scene \cup {mesh}
           /\ last' = Step("done", t.key, <<>>, {}, NoCall)
    /\ loadingChunks' = Release(loadingChunks, t.key)
    /\ tasks' = tasks (-) SetToBag({t})
    /\ UNCHANGED <<stalled, disposed, errors, hist>>

(***************************************************************************)
(* A continuation of a generation task that throws (shouldBlockExist in    *)
(* the terrain pass, or buildMesh): the catch block logs, the finally      *)
(* block releases the in-flight mark, frame.js:98-102.                     *)
(***************************************************************************)
Fail(t) ==
    /\ Unfinished(t)
    /\ Runnable(t)
    /\ errors' = errors + 1
    /\ loadingChunks' = Release(loadingChunks, t.key)
    /\ tasks' = tasks (-) SetToBag({t})
    /\ hist' = [hist EXCEPT !.failed = TRUE]
    /\ last' = Step("fail", t.key, <<>>, {}, NoCall)
    /\ UNCHANGED <<chunks, stalled, scene, disposed, nextEntityId, world>>

(***************************************************************************)
(* The elevation query a task awaits (voxelChunk.js:28) never returns:     *)
(* the task takes no further step.                                         *)
(***************************************************************************)
Stall(t) ==
    /\ Unfinished(t)
    /\ t \notin stalled
    /\ stalled' = stalled \cup {t}
    /\ last' = Step("stall", t.key, <<>>, {}, NoCall)
    /\ UNCHANGED <<chunks, loadingChunks, tasks, scene, disposed, nextEntityId,
                   world, errors, hist>>

-----------------------------------------------------------------------------
Call ==
    /\ \E v \in Views : LoadChunksAround(v[1], v[2])
    /\ UNCHANGED <<atCall, voxelVars, pureVars>>

Clear == Reset /\ UNCHANGED <<atCall, voxelVars, pureVars>>

Finish ==
    \E t \in BagToSet(tasks) :
        /\ nextEntityId < MaxEntities
        /\ Succeed(t)
        /\ UNCHANGED <<atCall, voxelVars, pureVars>>

Throw ==
    \E t \in BagToSet(tasks) :
        /\ <<t.chunkX, t.chunkZ>> \in Throwing
        /\ errors < MaxErrors
        /\ Fail(t)
        /\ UNCHANGED <<atCall, voxelVars, pureVars>>

Hang ==
    \E t \in BagToSet(tasks) :
        /\ <<t.chunkX, t.chunkZ>> \in Stalling
        /\ Cardinality(stalled) < MaxStalled
        /\ Stall(t)
        /\ UNCHANGED <<atCall, voxelVars, pureVars>>

Next == Call \/ Clear \/ Finish \/ Throw \/ Hang

Spec == Init /\ [][Next]_vars

-----------------------------------------------------------------------------
(***************************************************************************)
(* The load/unload transition: loadChunksAround(0, 0), then                *)
(* loadChunksAround(CHUNK_SIZE * 2 * VIEW_DISTANCE, 0), no other call, no  *)
(* task throwing or stalling, every set of tasks finishing between the two *)
(* calls.  Completions of different tasks touch different keys and differ  *)
(* between orders only in the entity numbers handed out, so they are taken *)
(* in the order of the chunk coordinates: between the calls any ascending  *)
(* selection of the tasks, after the second call every task in turn.       *)
(***************************************************************************)
Before(a, b) == a.chunkX < b.chunkX \/ (a.chunkX = b.chunkX /\ a.chunkZ < b.chunkZ)

First ==
    /\ hist.call = "none"
    /\ LoadChunksAround(0, 0)
    /\ atCall' = DOMAIN chunks
    /\ UNCHANGED <<voxelVars, pureVars>>

Second ==
    /\ hist.call = "load"
    /\ hist.at = <<0, 0>>
    /\ LoadChunksAround(Far, 0)
    /\ atCall' = DOMAIN chunks
    /\ UNCHANGED <<voxelVars, pureVars>>

Early ==
    /\ hist.at = <<0, 0>>
    /\ \E t \in BagToSet(tasks) :
          /\ last.op = "done" => Before(chunks[last.arg].chunk, t)
          /\ Succeed(t)
    /\ UNCHANGED <<atCall, voxelVars, pureVars>>

Late ==
    /\ hist.at = <<Far, 0>>
    /\ \E t \in BagToSet(tasks) :
          /\ \A u \in BagToSet(tasks) : u = t \/ Before(t, u)
          /\ Succeed(t)
    /\ UNCHANGED <<atCall, voxelVars, pureVars>>

NextTransit == First \/ Second \/ Early \/ Late

SpecTransit == Init /\ [][NextTransit]_vars

-----------------------------------------------------------------------------
KeysOf(seq) == {seq[i] : i \in 1..Len(seq)}

UnfinishedFor(key) == {t \in BagToSet(tasks) : t.key = key}

\* the number of unfinished generation tasks for a key
Outstanding(key) ==
    LET ts == UnfinishedFor(key) IN
    IF ts = {} THEN 0
    ELSE LET t == CHOOSE u \in ts : TRUE IN
         IF Cardinality(ts) = 1 THEN CopiesIn(t, tasks) ELSE Cardinality(ts)

(***************************************************************************)
(* C1.  Between callbacks no chunk key is both in the loaded map and in    *)
(* the in-flight set, under any interleaving of loadChunksAround, reset    *)
(* and the ends of generation tasks.                                       *)
(***************************************************************************)
C1_LoadedAndInFlightDisjoint == (DOMAIN chunks) \cap loadingChunks = {}

\* a task has just inserted its chunk while other keys are still in flight,
\* after a reset emptied the map
C1_Witness ==
    /\ last.op = "done"
    /\ hist.call = "reset"
    /\ last.arg \in DOMAIN chunks
    /\ loadingChunks # {}

(***************************************************************************)
(* C2.  At most one generation task per key is unfinished; a call starts   *)
(* a task only for a key that is neither loaded nor in-flight; and a call  *)
(* at the viewpoint of the call before it, with only task completions      *)
(* (no failure) in between, starts no task.                                *)
(***************************************************************************)
C2_State ==
    /\ \A t \in BagToSet(tasks) : Outstanding(t.key) = 1
    /\ (/\ last.op = "load"
        /\ last.prev.call = "load"
        /\ last.prev.at = last.arg
        /\ ~last.prev.failed) => last.started = <<>>

C2_Step ==
    last'.op = "load" =>
        \A key \in KeysOf(last'.started) :
            key \notin DOMAIN chunks /\ key \notin loadingChunks

FloorOf(x) == (x - (x % CHUNK_SIZE)) \div CHUNK_SIZE

ViewChunk(at) == <<FloorOf(at[1]), FloorOf(at[2])>>

Max(a, b) == IF a >= b THEN a ELSE b

\* Chebyshev distance of two chunk coordinates
Chebyshev(a, b) == Max(Abs(a[1] - b[1]), Abs(a[2] - b[2]))

\* the chunk coordinates of the view square around view chunk v
Square(v) ==
    {<<v[1] + dx, v[2] + dz>> :
        dx \in -VIEW_DISTANCE..VIEW_DISTANCE, dz \in -VIEW_DISTANCE..VIEW_DISTANCE}


CoordsOf(entry) == <<entry.chunk.chunkX, entry.chunk.chunkZ>>

(***************************************************************************)
(* C3.  A generation task that ends, by success or by a throw, leaves its  *)
(* key out of the in-flight set; after a throw the key is in neither the   *)
(* loaded map nor the in-flight set and has no unfinished task; a key in    *)
(* neither stays so until a loadChunksAround whose view square covers it,  *)
(* and that call, made after the failure, starts one generation task for   *)
(* it.                                                                     *)
(***************************************************************************)
C3_State ==
    /\ last.op \in {"done", "fail"} => last.arg \notin loadingChunks
    /\ last.op = "fail" =>
          /\ last.arg \notin DOMAIN chunks
          /\ UnfinishedFor(last.arg) = {}

C3_Step ==
    IF last'.op = "load"
    THEN LET v == ViewChunk(last'.arg)
             square == {chunkKey(v[1] + d[1], v[2] + d[2]) : d \in Square(<<0, 0>>)}
             covered == square \ ((DOMAIN chunks) \cup loadingChunks)
         IN  /\ \A key \in covered :
                   /\ key \in KeysOf(last'.started)
                   /\ key \in loadingChunks'
                   /\ Cardinality({t \in BagToSet(tasks') : t.key = key}) = 1
             /\ (loadingChunks' \ loadingChunks) \subseteq covered
             /\ (DOMAIN chunks') \subseteq (DOMAIN chunks)
    ELSE /\ loadingChunks' \subseteq loadingChunks
         /\ ((DOMAIN chunks') \ (DOMAIN chunks)) \subseteq loadingChunks

C3_FailureReleasesMark == [](C3_State) /\ [][C3_Step]_vars

\* the only task that ever ended threw; a call that did not cover its key
\* followed, and the call after that has started a task for the key again
C3_Witness ==
    /\ errors = 1
    /\ nextEntityId = 0
    /\ last.op = "load"
    /\ last.prev.call = "load"
    /\ \E c \in Throwing :
          /\ c \notin Square(last.prev.view)
          /\ chunkKey(c[1], c[2]) \in KeysOf(last.started)

(***************************************************************************)
(* C4.  When loadChunksAround(viewX, viewZ) returns, every loaded chunk is *)
(* within Chebyshev distance VIEW_DISTANCE of the view chunk: the call     *)
(* took every farther chunk out of the map and its mesh off the scene, and *)
(* kept every other chunk, those at distance exactly VIEW_DISTANCE too.    *)
(***************************************************************************)
C4_Step ==
    last'.op = "load" =>
        LET v == ViewChunk(last'.arg) IN
        /\ \A key \in DOMAIN chunks' :
              Chebyshev(CoordsOf(chunks'[key]), v) <= VIEW_DISTANCE
        /\ \A key \in DOMAIN chunks :
              IF Chebyshev(CoordsOf(chunks[key]), v) > VIEW_DISTANCE
              THEN /\ key \notin DOMAIN chunks'
                   /\ chunks[key].mesh \notin scene'
              ELSE /\ key \in DOMAIN chunks'
                   /\ chunks'[key] = chunks[key]
                   /\ chunks[key].mesh \in scene => chunks[key].mesh \in scene'

C4_LoadedWithinViewDistance == [][C4_Step]_vars

\* a call has returned that removed a chunk and kept one at distance exactly
\* VIEW_DISTANCE
C4_Witness ==
    /\ last.op = "load"
    /\ last.removed # {}
    /\ \E key \in DOMAIN chunks :
          Chebyshev(CoordsOf(chunks[key]), ViewChunk(last.arg)) = VIEW_DISTANCE

(***************************************************************************)
(* C5.  After loadChunksAround(0, 0) and then                              *)
(* loadChunksAround(CHUNK_SIZE * 2 * VIEW_DISTANCE, 0), once every started *)
(* task has finished: every chunk within VIEW_DISTANCE of the new view     *)
(* chunk is loaded, and chunk (0, 0) is absent from the loaded map exactly *)
(* when its generation had finished before the second call; a (0, 0) that  *)
(* finishes after the second call is loaded.                               *)
(***************************************************************************)
TransitDone == hist.call = "load" /\ hist.at = <<Far, 0>> /\ tasks = EmptyBag

NewSquareLoaded ==
    \A c \in Square(<<2 * VIEW_DISTANCE, 0>>) : chunkKey(c[1], c[2]) \in DOMAIN chunks

OutOfView(entry, at) == Chebyshev(CoordsOf(entry), ViewChunk(at)) > VIEW_DISTANCE

C6_Inserted ==
    last'.op = "done" =>
        /\ last'.arg \in DOMAIN chunks'
        /\ chunks'[last'.arg].mesh \in scene'

C6_NotCancelled ==
    last'.op \in {"load", "reset"} =>
        \A t \in BagToSet(tasks) : CopiesIn(t, tasks') >= CopiesIn(t, tasks)

C6_Removed ==
    last'.op = "load" =>
        \A key \in DOMAIN chunks :
            OutOfView(chunks[key], last'.arg) => key \notin DOMAIN chunks'

C6_StaysUntil(calls) ==
    last'.op \notin calls =>
        \A key \in DOMAIN chunks :
            OutOfView(chunks[key], hist.at) =>
                /\ key \in DOMAIN chunks'
                /\ chunks'[key] = chunks[key]
                /\ chunks[key].mesh \in scene'

C6_NoCancellation ==
    [][/\ C6_Inserted
       /\ C6_NotCancelled
       /\ C6_Removed
       /\ C6_StaysUntil({"load", "reset"})]_vars

\* C6 as first stated: the chunk stays loaded until the next loadChunksAround
C6_AsStated ==
    [][/\ C6_Inserted
       /\ C6_NotCancelled
       /\ C6_Removed
       /\ C6_StaysUntil({"load"})]_vars

\* a call has removed a chunk that was already outside the view square of the
\* call before it: it had been inserted out of range and stayed until now
C6_Witness ==
    /\ last.op = "load"
    /\ last.prev.call = "load"
    /\ \E m \in last.removed :
          \/ Abs(m.position[1] - last.prev.view[1] * CHUNK_SIZE)
                 > VIEW_DISTANCE * CHUNK_SIZE
          \/ Abs(m.position[3] - last.prev.view[2] * CHUNK_SIZE)
                 > VIEW_DISTANCE * CHUNK_SIZE

(***************************************************************************)
(* C7.  loadChunksAround(viewX, viewZ) starts one generation task for each *)
(* key of the view square around (floor(viewX / CHUNK_SIZE),               *)
(* floor(viewZ / CHUNK_SIZE)) that was neither loaded nor in-flight when   *)
(* the call began, and for no other key, in ascending order of dx and,     *)
(* within one dx, of dz.  It waits for no task: on return every started    *)
(* task is unfinished and has not touched the loaded map, and every key of *)
(* the square is loaded or in-flight.                                      *)
(***************************************************************************)
TaskFor(key, bag) == CHOOSE t \in BagToSet(bag) : t.key = key

C7_Step ==
    last'.op = "load" =>
        LET v == ViewChunk(last'.arg)
            started == last'.started
            square == {chunkKey(v[1] + d[1], v[2] + d[2]) : d \in Square(<<0, 0>>)}
        IN  /\ KeysOf(started) = square \ ((DOMAIN chunks) \cup loadingChunks)
            /\ Cardinality(KeysOf(started)) = Len(started)
            /\ \A i \in 1..Len(started) :
                  LET t == TaskFor(started[i], tasks') IN
                  /\ CopiesIn(t, tasks') = 1
                  /\ t.key = chunkKey(t.chunkX, t.chunkZ)
                  /\ <<t.chunkX, t.chunkZ>> \in Square(v)
                  /\ started[i] \in loadingChunks'
                  /\ started[i] \notin DOMAIN chunks'
                  /\ \A j \in (i + 1)..Len(started) :
                        Before(t, TaskFor(started[j], tasks'))
            /\ \A t \in BagToSet(tasks') :
                  t.key \notin KeysOf(started) => CopiesIn(t, tasks') = CopiesIn(t, tasks)
            /\ \A key \in square : key \in (DOMAIN chunks') \cup loadingChunks'
            /\ (DOMAIN chunks') \subseteq (DOMAIN chunks)

C7_StartsExactlyTheMissing == [][C7_Step]_vars

\* a call at a negative coordinate has returned; it started tasks for some keys
\* of its square and skipped others, one loaded and one in-flight
C7_Witness ==
    /\ last.op = "load"
    /\ last.arg[1] < 0
    /\ Len(last.started) > 0
    /\ LET v == ViewChunk(last.arg)
           square == {chunkKey(c[1], c[2]) : c \in Square(v)}
       IN  /\ square \cap (DOMAIN chunks) # {}
           /\ (square \cap loadingChunks) \ KeysOf(last.started) # {}

(***************************************************************************)
(* C8.  When reset() returns the loaded map is empty and no mesh that was  *)
(* in it is on the scene.                                                  *)
(***************************************************************************)
C8_Step ==
    last'.op = "reset" =>
        /\ DOMAIN chunks' = {}
        /\ \A key \in DOMAIN chunks : chunks[key].mesh \notin scene'

C8_ResetEmpties == [][C8_Step]_vars

\* a reset has returned that removed two chunks, one of them outside the view
\* square
C8_Witness ==
    /\ last.op = "reset"
    /\ Cardinality(last.removed) >= 2
    /\ scene = {}
    /\ \E m \in last.removed :
          Abs(m.position[1] - hist.view[1] * CHUNK_SIZE) > VIEW_DISTANCE * CHUNK_SIZE

(***************************************************************************)
(* C9.  A chunk removed from the loaded map, by loadChunksAround or by     *)
(* reset, has its mesh resources released (geometry and material           *)
(* disposed) in that same step.                                            *)
(***************************************************************************)
C9_RemovedIsDisposed ==
    last.op \in {"load", "reset"} => \A m \in last.removed : m.id \in disposed

(***************************************************************************)
(* C10.  A generation task whose elevation query never returns holds up    *)
(* nothing else.  While it is stalled its key stays in the in-flight set   *)
(* and out of the loaded map, every other unfinished task can finish and   *)
(* reset can run; a loadChunksAround that returns meanwhile has unloaded   *)
(* every chunk out of range and left every key of its square loaded or     *)
(* in-flight, a reset has emptied the map, and a task that finishes        *)
(* meanwhile is inserted into the loaded map and leaves the in-flight set. *)
(***************************************************************************)
C10_State ==
    /\ \A t \in stalled :
          /\ Unfinished(t)
          /\ t.key \in loadingChunks
          /\ t.key \notin DOMAIN chunks
    /\ stalled # {} =>
          /\ ENABLED Reset
          /\ \A t \in BagToSet(tasks) \ stalled : ENABLED Succeed(t)

C10_Step ==
    stalled # {} =>
        /\ stalled \subseteq stalled'
        /\ last'.op = "load" =>
              LET v == ViewChunk(last'.arg) IN
              /\ \A key \in DOMAIN chunks' :
                    Chebyshev(CoordsOf(chunks'[key]), v) <= VIEW_DISTANCE
              /\ \A c \in Square(v) :
                    chunkKey(c[1], c[2]) \in (DOMAIN chunks') \cup loadingChunks'
        /\ last'.op = "reset" => DOMAIN chunks' = {}
        /\ last'.op = "done" =>
              /\ last'.arg \in DOMAIN chunks'
              /\ last'.arg \notin loadingChunks'
              /\ \A t \in stalled : t.key # last'.arg

C10_StallIsLocal == [](C10_State) /\ [][C10_Step]_vars

\* with one task stalled, two other tasks have finished and a later call has
\* unloaded a chunk and started tasks
C10_Witness ==
    /\ stalled # {}
    /\ nextEntityId = 2
    /\ last.op = "load"
    /\ last.removed # {}
    /\ last.started # <<>>

(***************************************************************************)
(* The manager when every elevation query returns and no task throws:      *)
(* each unfinished task eventually runs its last continuation (weak        *)
(* fairness; a task that can resume stays able to until it does).          *)
(* Completions of different tasks touch different keys and differ between  *)
(* orders only in the entity numbers handed out, so they are taken in the  *)
(* order of the chunk coordinates.  A call is made only while              *)
(* LiveEntities entity numbers suffice for the tasks it can start.         *)
(***************************************************************************)
LiveEntities == 2 * Side * Side

LiveCall ==
    /\ nextEntityId + BagCardinality(tasks) + Side * Side <= LiveEntities
    /\ \E v \in Views : LoadChunksAround(v[1], v[2])
    /\ UNCHANGED <<atCall, voxelVars, pureVars>>

LiveClear == Reset /\ UNCHANGED <<atCall, voxelVars, pureVars>>

LiveFinish ==
    \E t \in BagToSet(tasks) :
        /\ \A u \in BagToSet(tasks) : u = t \/ Before(t, u)
        /\ Succeed(t)
        /\ UNCHANGED <<atCall, voxelVars, pureVars>>

NextLive == LiveCall \/ LiveClear \/ LiveFinish

SpecLive == Init /\ [][NextLive]_vars /\ WF_vars(LiveFinish)

(***************************************************************************)
(* C30.  If every elevation query returns and no task throws, then after a *)
(* loadChunksAround call that no other call follows, eventually the        *)
(* in-flight set is empty and every key within VIEW_DISTANCE of the view   *)
(* chunk is in the loaded map (and it stays so).                           *)
(***************************************************************************)
C30_Settled ==
    /\ loadingChunks = {}
    /\ hist.call = "load" =>
          \A c \in Square(hist.view) : chunkKey(c[1], c[2]) \in DOMAIN chunks

C30_NoCall == last'.op \notin {"load", "reset"}

C30_EventuallyLoaded == <>[][C30_NoCall]_vars => <>[]C30_Settled

\* the last task has finished after a call that followed a reset: the square is
\* loaded, chunks of the square of the call before the reset with it
C30_Witness ==
    /\ C30_Settled
    /\ hist.call = "load"
    /\ last.op = "done"
    /\ nextEntityId = LiveEntities
    /\ Cardinality(DOMAIN chunks) > Side * Side

(***************************************************************************)
(* C27.  After reset() the world stays empty until chunks are requested    *)
(* again: as long as no loadChunksAround call has followed the reset, the  *)
(* loaded map and the scene hold nothing (no chunk whose generation was    *)
(* started before the reset is inserted or shown) and the in-flight set    *)
(* holds no key.                                                           *)
(***************************************************************************)
C27_StaysEmptyAfterReset ==
    hist.call = "reset" =>
        /\ DOMAIN chunks = {}
        /\ scene = {}
        /\ loadingChunks = {}

(***************************************************************************)
(* C28.  Between callbacks the meshes in the scene are exactly the meshes  *)
(* of the entries of the loaded map, one per key, each at                  *)
(* (chunkX * CHUNK_SIZE, 0, chunkZ * CHUNK_SIZE) for the coordinates of    *)
(* its key; a mesh enters the scene only when its chunk is inserted and    *)
(* leaves it only in a loadChunksAround or a reset.                        *)
(***************************************************************************)
C28_State ==
    /\ scene = {chunks[key].mesh : key \in DOMAIN chunks}
    /\ \A k1, k2 \in DOMAIN chunks : chunks[k1].mesh = chunks[k2].mesh => k1 = k2
    /\ \A key \in DOMAIN chunks :
          LET c == ParseKey(key) IN
          chunks[key].mesh.position = <<c[1] * CHUNK_SIZE, 0, c[2] * CHUNK_SIZE>>

C28_Step ==
    /\ scene' \ scene # {} =>
          /\ last'.op = "done"
          /\ scene' \ scene = {chunks'[last'.arg].mesh}
    /\ scene \ scene' # {} =>
          /\ last'.op \in {"load", "reset"}
          /\ scene \ scene' = last'.removed

C28_SceneIsLoadedMeshes == [](C28_State) /\ [][C28_Step]_vars

\* a call has taken the mesh of a chunk of negative coordinates off the scene
\* and left one mesh, the one of the chunk still loaded
C28_Witness ==
    /\ last.op = "load"
    /\ \E m \in last.removed : m.position[1] < 0
    /\ Cardinality(scene) = 1
    /\ Cardinality(DOMAIN chunks) = 1

(***************************************************************************)
(* C29.  The registry holds the records of at most one chunk per           *)
(* coordinate pair: every entity has one Transform and one VoxelData       *)
(* record, and no two entities carry chunks of the same coordinates, also  *)
(* after a chunk was unloaded or reset and its coordinates were generated  *)
(* again.                                                                  *)
(***************************************************************************)
Records(component) ==
    IF component \in DOMAIN world.components
    THEN world.components[component]
    ELSE EmptyMap

C29_OneEntityPerChunk ==
    /\ DOMAIN Records("Transform") = world.entities
    /\ DOMAIN Records("VoxelData") = world.entities
    /\ \A e1, e2 \in world.entities :
          (/\ Records("VoxelData")[e1].chunk.chunkX = Records("VoxelData")[e2].chunk.chunkX
           /\ Records("VoxelData")[e1].chunk.chunkZ = Records("VoxelData")[e2].chunk.chunkZ)
              => e1 = e2

-----------------------------------------------------------------------------
(***************************************************************************)
(* ElevationService (src/unnamed/part_007).  Noise values are fractions;   *)
(* the model counts them in thousandths, so 0.3 is 300.                    *)
(***************************************************************************)
CHUNK_HEIGHT == 64

\* constructor, part_007:26-32
caveThreshold == 300
surfaceCutoff == 45
shallowCaveDepth == 25
midDepthCutoff == 35
deepCaveDepth == 60

\* the two thresholds written in shouldCarveBlock itself, part_007:138-139
upperThreshold == 200
deepThreshold == 350

\* A threshold that forgets the bracket of the upper underground.
ThresholdAt_NoUpper(depth) ==
    IF depth > deepCaveDepth THEN deepThreshold ELSE caveThreshold

\* The value of caveThreshold when the noise is compared with it,
\* part_007:133-139: the two assignments in the order of the code.
ThresholdAt(depth) ==
    LET t0 == caveThreshold
        t1 == IF depth < midDepthCutoff THEN upperThreshold ELSE t0
        t2 == IF depth > deepCaveDepth THEN deepThreshold ELSE t1
    IN  t2

\* A carve test without the surface cutoff.
shouldCarveBlock_NoCutoff(worldY, combinedCave) ==
    IF worldY < shallowCaveDepth THEN FALSE
    ELSE combinedCave < ThresholdAt(worldY)

\* shouldCarveBlock(worldX, worldY, worldZ), part_007:123-151.  combinedCave is
\* the value of line 147, computed from noise3D at (worldX, worldY, worldZ); it
\* is an argument here, so that every value of the noise is covered.
shouldCarveBlock(worldY, combinedCave) ==
    IF worldY > surfaceCutoff THEN FALSE
    ELSE IF worldY < shallowCaveDepth THEN FALSE
    ELSE combinedCave < ThresholdAt(worldY)

Returned(v) == [kind |-> "returned", value |-> v]

\* The depths of a chunk of the manager, and values of the combined noise on
\* both sides of every threshold.
CarveDepths == 0..(CHUNK_HEIGHT - 1)
CarveNoises == {0, 199, 200, 299, 300, 349, 350, 1000}

InitCarve ==
    /\ InitManager
    /\ NoVoxel
    /\ input \in [worldY : CarveDepths, combinedCave : CarveNoises]
    /\ output = Pending
    /\ NoQueries

Carve ==
    /\ output = Pending
    /\ output' = Returned(shouldCarveBlock(input.worldY, input.combinedCave))
    /\ UNCHANGED <<input, fields, queries, managerVars, voxelVars>>

NextCarve == Carve

SpecCarve == InitCarve /\ [][NextCarve]_vars

(***************************************************************************)
(* C20.  shouldCarveBlock decides by the threshold of the depth bracket    *)
(* the point is in: 0.2 below midDepthCutoff, 0.35 above deepCaveDepth,    *)
(* 0.3 in between; a point above deepCaveDepth is carved exactly when the  *)
(* combined noise is below 0.35.  (Depths where the depth policy forbids   *)
(* carving, above surfaceCutoff or below shallowCaveDepth, are left to the *)
(* policy, except in the deep bracket the statement names.)                *)
(***************************************************************************)
C20_Bracket(depth) ==
    IF depth > deepCaveDepth THEN deepThreshold
    ELSE IF depth < midDepthCutoff THEN upperThreshold
    ELSE caveThreshold

C20_BracketGoverns ==
    output.kind = "returned" /\ DOMAIN input = {"worldY", "combinedCave"} =>
        LET y == input.worldY IN
        (y > deepCaveDepth \/ (y >= shallowCaveDepth /\ y <= surfaceCutoff)) =>
            (output.value <=> input.combinedCave < C20_Bracket(y))

(***************************************************************************)
(* C22.  shouldCarveBlock returns false for every worldY above             *)
(* surfaceCutoff (45), whatever the noise values.                          *)
(***************************************************************************)
C22_NoCarveAboveCutoff ==
    (/\ output.kind = "returned"
     /\ DOMAIN input = {"worldY", "combinedCave"}
     /\ input.worldY > surfaceCutoff) => output.value = FALSE

\* the call returned false one level above the cutoff for a noise value that
\* is below every threshold
C22_Witness ==
    /\ output.kind = "returned"
    /\ DOMAIN input = {"worldY", "combinedCave"}
    /\ input.worldY = surfaceCutoff + 1
    /\ input.combinedCave = 0
    /\ output.value = FALSE

(***************************************************************************)
(* shouldCarveBlock with the three noise samples it combines               *)
(* (part_007:142-147) and shouldBlockExist (part_007:237-248), which the   *)
(* terrain pass calls for each voxel below the surface height.             *)
(***************************************************************************)
\* (cave1 + cave2 * 0.3 + cave3 * 0.1) / 1.4, in thousandths rounded down: the
\* thresholds are whole thousandths, so the comparison with them is the one of
\* the exact quotient.
CombinedCave(cave1, cave2, cave3) == (10 * cave1 + 3 * cave2 + cave3) \div 14

\* shouldBlockExist(chunkX, chunkZ, localX, localY, localZ, surfaceHeight)
shouldBlockExist(localY, surfaceHeight, combinedCave) ==
    IF localY >= surfaceHeight THEN FALSE
    ELSE ~ shouldCarveBlock(localY, combinedCave)

ReturnedBy(fn, v) == [kind |-> "returned", fn |-> fn, value |-> v]

\* |noise3D| samples (thousandths) on both sides of the thresholds, and surface
\* heights at, one above and well above the voxel asked about
CaveSamples == {0, 279, 280, 420, 1000}
SurfaceOffsets == {0, 1, 20}

InitCave ==
    /\ InitManager
    /\ NoVoxel
    /\ input \in {[worldY |-> y, surfaceHeight |-> y + d,
                   cave1 |-> c1, cave2 |-> c2, cave3 |-> c3] :
                      y \in CarveDepths, d \in SurfaceOffsets,
                      c1 \in CaveSamples, c2 \in CaveSamples, c3 \in CaveSamples}
    /\ input.surfaceHeight \in 1..(CHUNK_HEIGHT - 1)
    /\ output = Pending
    /\ NoQueries

CarveAt ==
    /\ output = Pending
    /\ output' = ReturnedBy("shouldCarveBlock",
                     shouldCarveBlock(input.worldY,
                         CombinedCave(input.cave1, input.cave2, input.cave3)))
    /\ UNCHANGED <<input, fields, queries, managerVars, voxelVars>>

BlockExists ==
    /\ output = Pending
    /\ output' = ReturnedBy("shouldBlockExist",
                     shouldBlockExist(input.worldY, input.surfaceHeight,
                         CombinedCave(input.cave1, input.cave2, input.cave3)))
    /\ UNCHANGED <<input, fields, queries, managerVars, voxelVars>>

NextCave == CarveAt \/ BlockExists

SpecCave == InitCave /\ [][NextCave]_vars

(***************************************************************************)
(* C21.  Carving never breaks the surface: shouldCarveBlock returns false, *)
(* whatever the noise, in a band of worldY directly beneath surfaceCutoff  *)
(* (here its thinnest reading, the level of the cutoff and the one under   *)
(* it), and the topmost voxel under the surface height of a column         *)
(* (y = surfaceHeight - 1) is not carved: shouldBlockExist is true there.  *)
(***************************************************************************)
C21_Band == {surfaceCutoff - 1, surfaceCutoff}

C21_SurfaceNeverCarved ==
    output.kind = "returned" =>
        /\ (output.fn = "shouldCarveBlock" /\ input.worldY \in C21_Band) =>
               output.value = FALSE
        /\ (output.fn = "shouldBlockExist" /\ input.worldY = input.surfaceHeight - 1) =>
               output.value = TRUE

(***************************************************************************)
(* C23.  For worldY strictly between shallowCaveDepth (25) and             *)
(* midDepthCutoff (35), shouldCarveBlock returns true exactly when         *)
(* (cave1 + 0.3 * cave2 + 0.1 * cave3) / 1.4 is below 0.2.                 *)
(***************************************************************************)
C23_ShallowBracket ==
    (/\ output.kind = "returned"
     /\ output.fn = "shouldCarveBlock"
     /\ input.worldY > shallowCaveDepth
     /\ input.worldY < midDepthCutoff) =>
        (output.value <=> 10 * input.cave1 + 3 * input.cave2 + input.cave3 < 14 * 200)

\* the call returned at depth 30 on both sides of 0.2: false for a combined
\* value between 0.2 and 0.3, which the default threshold would carve
C23_Witness ==
    /\ output.kind = "returned"
    /\ output.fn = "shouldCarveBlock"
    /\ input.worldY = 30
    /\ input.cave1 = 280
    /\ input.cave2 = 0
    /\ input.cave3 = 0
    /\ output.value = FALSE

-----------------------------------------------------------------------------
(***************************************************************************)
(* ElevationService.hash (part_007:38-42).  JavaScript numbers are         *)
(* doubles: + and * are exact up to 2^53 and round to 53 significant bits  *)
(* beyond, while ^ and >>> first reduce their operands modulo 2^32.  A     *)
(* number is a sequence of bits here, lowest bit first.                    *)
(***************************************************************************)
worldSeed == 12345

\* the multipliers of part_007:39-40
PrimeX == 374761393
PrimeY == 668265263
Mixer == 1274126177

\* the significant bits of a double
Mantissa == 53

\* n as w bits, 0 <= n < 2^31 (SubSeq, here and below, yields the bits as a
\* plain sequence)
Bits(n, w) ==
    SubSeq([i \in 1..w |-> IF i > 31 THEN 0 ELSE (n \div 2^(i - 1)) % 2], 1, w)

\* carry propagation over per-position sums, from position k on
RECURSIVE Norm(_, _, _)
Norm(cols, k, carry) ==
    IF k > Len(cols) THEN <<>>
    ELSE LET t == cols[k] + carry IN <<t % 2>> \o Norm(cols, k + 1, t \div 2)

\* sum and product modulo 2^Len(a)
Add(a, b) == Norm([k \in 1..Len(a) |-> a[k] + b[k]], 1, 0)

Mul(a, b) ==
    Norm([k \in 1..Len(a) |->
             Cardinality({i \in 1..k : a[i] = 1 /\ b[k - i + 1] = 1})], 1, 0)

Not(a) ==
    SubSeq([i \in 1..Len(a) |-> 1 - a[i]], 1, Len(a))

\* two's complement
Neg(a) == Add(Not(a), Bits(1, Len(a)))

IntBits(n, w) == IF n >= 0 THEN Bits(n, w) ELSE Neg(Bits(-n, w))

\* a ^ b
Xor(a, b) ==
    SubSeq([i \in 1..Len(a) |-> (a[i] + b[i]) % 2], 1, Len(a))

\* a >>> k and a * 2^k
Shr(a, k) ==
    SubSeq([i \in 1..Len(a) |-> IF i + k <= Len(a) THEN a[i + k] ELSE 0], 1, Len(a))
Shl(a, k) ==
    SubSeq([i \in 1..Len(a) |-> IF i > k THEN a[i - k] ELSE 0], 1, Len(a))

\* the low w bits, and zero extension to w bits
Low(a, w) ==
    SubSeq([i \in 1..w |-> a[i]], 1, w)
Extend(a, w) ==
    SubSeq([i \in 1..w |-> IF i <= Len(a) THEN a[i] ELSE 0], 1, w)

\* the value of 32 bits read as a signed integer (the result of ^)
Signed(a) ==
    LET RECURSIVE V(_)
        V(i) == IF i > 31 THEN 0 ELSE a[i] + 2 * V(i + 1)
    IN  IF a[32] = 1 THEN (V(1) - 2^30) - 2^30 ELSE V(1)

\* A non-negative integer below 2^64 rounded to the nearest double, ties to
\* even: what the product of two doubles is stored as.
RoundToDouble(p) ==
    LET ones == {i \in 1..Len(p) : p[i] = 1}
        top == IF ones = {} THEN 0 ELSE CHOOSE i \in ones : \A j \in ones : j <= i
        d == top - Mantissa
    IN  IF d <= 0 THEN p
        ELSE LET q == Shr(p, d)
                 sticky == \E i \in 1..(d - 1) : p[i] = 1
                 up == p[d] = 1 /\ (sticky \/ q[1] = 1)
             IN  Shl(IF up THEN Add(q, Bits(1, Len(p))) ELSE q, d)

\* int32 * Mixer as JavaScript computes it, then reduced modulo 2^32 as the
\* operands of ^ and >>> are (part_007:40-41).
TimesMixer(a) ==
    LET neg == a[32] = 1
        mag == IF neg THEN Neg(a) ELSE a
        product == Mul(Extend(mag, 64), Bits(Mixer, 64))
        low == Low(RoundToDouble(product), 32)
    IN  IF neg THEN Neg(low) ELSE low

\* hash(x, y), part_007:38-42: the numerator of the result, whose
\* denominator is 2147483648.  Line 39 is exact for |x|, |y| < 2^21.
hash(x, y) ==
    LET h0 == Add(Add(IntBits(worldSeed, 32), Mul(IntBits(x, 32), Bits(PrimeX, 32))),
                  Mul(IntBits(y, 32), Bits(PrimeY, 32)))
        h1 == TimesMixer(Xor(h0, Shr(h0, 13)))
    IN  Signed(Xor(h1, Shr(h1, 16)))

\* the coordinates hash is applied to: -HashRange..HashRange on both axes
HashRange == 5

InitHash ==
    /\ InitManager
    /\ NoVoxel
    /\ input \in [x : -HashRange..HashRange, y : -HashRange..HashRange]
    /\ output = Pending
    /\ NoQueries

Hash ==
    /\ output = Pending
    /\ output' = Returned(hash(input.x, input.y))
    /\ UNCHANGED <<input, fields, queries, managerVars, voxelVars>>

NextHash == Hash

SpecHash == InitHash /\ [][NextHash]_vars

(***************************************************************************)
(* C19.  hash(x, y) is in [0, 1) for all integers x and y: its numerator   *)
(* over 2147483648 is at least 0 and below 2147483648.                     *)
(***************************************************************************)
C19_HashInUnitInterval ==
    output.kind = "returned" /\ DOMAIN input = {"x", "y"} =>
        /\ 0 <= output.value
        /\ output.value <= 2147483647

-----------------------------------------------------------------------------
(***************************************************************************)
(* VoxelChunk (src/voxelChunk.js): the voxel array and its two accessors.  *)
(* this.data is a Uint8Array of size * maxHeight * size cells, a function  *)
(* from 0-based indices here.  Reading a typed array outside its length    *)
(* yields undefined, writing there does nothing.                           *)
(***************************************************************************)
\* the value JavaScript calls undefined
Undefined == -1

\* new Uint8Array(size * maxHeight * size), voxelChunk.js:14
NewData(size, maxHeight) == [i \in 0..(size * maxHeight * size - 1) |-> 0]

\* the index expression of voxelChunk.js:61 and :70
Index(size, x, y, z) == x + (y * size) + (z * size * size)

\* A bounds test that lets the coordinate one past the end through.
InBounds_OffByOne(sh, x, y, z) ==
    ~ (x < 0 \/ x > sh.size \/ y < 0 \/ y > sh.maxHeight \/ z < 0 \/ z > sh.size)

\* the negation of the test of voxelChunk.js:65-69
InBounds(sh, x, y, z) ==
    ~ (x < 0 \/ x >= sh.size \/ y < 0 \/ y >= sh.maxHeight \/ z < 0 \/ z >= sh.size)

\* this.data[i]
ReadCell(d, i) == IF i \in DOMAIN d THEN d[i] ELSE Undefined

\* this.data[i] = id
WriteCell(d, i, id) == IF i \in DOMAIN d THEN [d EXCEPT ![i] = id] ELSE d

\* getBlock(x, y, z), voxelChunk.js:64-71
getBlock(sh, d, x, y, z) ==
    IF ~ InBounds(sh, x, y, z) THEN 0
    ELSE ReadCell(d, Index(sh.size, x, y, z))

\* setBlock(x, y, z, id), voxelChunk.js:60-62: the array after the call
setBlock(sh, d, x, y, z, id) == WriteCell(d, Index(sh.size, x, y, z), id)

\* the coordinates the loops of _initTerrain and buildMesh run over
Cells(sh) == (0..(sh.size - 1)) \X (0..(sh.maxHeight - 1)) \X (0..(sh.size - 1))

(***************************************************************************)
(* Calls of getBlock and setBlock on a chunk of every small shape and      *)
(* every content.  getBlock is called with coordinates up to Margin        *)
(* outside the chunk (buildMesh asks for the neighbours of border voxels), *)
(* setBlock with the coordinates _initTerrain passes, which are in bounds. *)
(***************************************************************************)
MaxSize == 2
MaxHeight == 2
Margin == 1

Shape(size, maxHeight, elevationService) ==
    [size |-> size, maxHeight |-> maxHeight, chunkX |-> 0, chunkZ |-> 0,
     elevationService |-> elevationService]

GridShapes == {Shape(s, h, FALSE) : s \in 1..MaxSize, h \in 1..MaxHeight}

\* a chunk whose array holds any content, no mesh built
SomeChunk ==
    /\ shape \in GridShapes
    /\ voxelData \in [0..(shape.size * shape.maxHeight * shape.size - 1) -> {0, 1}]
    /\ voxelMesh = NoMesh
    /\ released = {}
    /\ cursor = <<>>
    /\ service = <<>>
    /\ noise = <<>>
    /\ height = <<>>
    /\ access = NoAccess
    /\ earlier = <<>>
    /\ thrown = {}

InitGrid == InitManager /\ SomeChunk /\ NoPure

GetBlock ==
    \E x \in (-Margin)..(shape.size - 1 + Margin),
       y \in (-Margin)..(shape.maxHeight - 1 + Margin),
       z \in (-Margin)..(shape.size - 1 + Margin) :
        /\ input' = [fn |-> "getBlock", x |-> x, y |-> y, z |-> z]
        /\ output' = Returned(getBlock(shape, voxelData, x, y, z))
        /\ access' = IF InBounds(shape, x, y, z)
                     THEN [op |-> "read", index |-> Index(shape.size, x, y, z),
                           checked |-> TRUE]
                     ELSE NoAccess
        /\ UNCHANGED <<shape, voxelData, voxelMesh, released, cursor, service,
                       noise, height, earlier, thrown, managerVars, fields, queries>>

SetBlock ==
    \E c \in Cells(shape), id \in {0, 1} :
        /\ input' = [fn |-> "setBlock", x |-> c[1], y |-> c[2], z |-> c[3], id |-> id]
        /\ voxelData' = setBlock(shape, voxelData, c[1], c[2], c[3], id)
        /\ output' = Returned(Undefined)
        /\ access' = [op |-> "write", index |-> Index(shape.size, c[1], c[2], c[3]),
                      checked |-> FALSE]
        /\ UNCHANGED <<shape, voxelMesh, released, cursor, service, noise, height,
                       earlier, thrown, managerVars, fields, queries>>

NextGrid == GetBlock \/ SetBlock

SpecGrid == InitGrid /\ [][NextGrid]_vars

(***************************************************************************)
(* C11.  Every access to the voxel array, by setBlock as by getBlock, is   *)
(* made after the coordinates were validated and falls inside the array of *)
(* size * maxHeight * size cells, for every shape of chunk.                *)
(***************************************************************************)
C11_AccessValidatedAndInArray ==
    access.op # "none" =>
        /\ access.checked
        /\ access.index \in DOMAIN voxelData

(***************************************************************************)
(* C18.  getBlock(x, y, z) returns 0 and raises no error whenever x or z   *)
(* is outside [0, size) or y outside [0, maxHeight), whatever the content  *)
(* of the grid; it does not touch the array then.                          *)
(***************************************************************************)
C18_Outside ==
    \/ input.x < 0 \/ input.x >= shape.size
    \/ input.y < 0 \/ input.y >= shape.maxHeight
    \/ input.z < 0 \/ input.z >= shape.size

C18_OutOfBoundsReadsEmpty ==
    (output.kind = "returned" /\ DOMAIN input = {"fn", "x", "y", "z"} /\ C18_Outside) =>
        /\ output.value = 0
        /\ thrown = {}
        /\ access = NoAccess

\* getBlock has returned for a coordinate one past the end of a chunk whose
\* every cell is solid
C18_Witness ==
    /\ output.kind = "returned"
    /\ DOMAIN input = {"fn", "x", "y", "z"}
    /\ input.x = shape.size
    /\ input.y \in 0..(shape.maxHeight - 1)
    /\ input.z \in 0..(shape.size - 1)
    /\ shape.size = MaxSize
    /\ \A i \in DOMAIN voxelData : voxelData[i] = 1
    /\ output.value = 0

(***************************************************************************)
(* setBlock on a new chunk (the zero-filled array of voxelChunk.js:14)     *)
(* whose maxHeight is at least its size, which keeps every index inside    *)
(* the array: the small cubes and a shape with maxHeight above size, the   *)
(* proportions of the manager's chunks (32 wide, 64 high).                 *)
(***************************************************************************)
TallHeight == 3

CellShapes ==
    {sh \in GridShapes : sh.maxHeight >= sh.size} \cup {Shape(MaxSize, TallHeight, FALSE)}

InitCells ==
    /\ InitManager
    /\ NoPure
    /\ shape \in CellShapes
    /\ voxelData = NewData(shape.size, shape.maxHeight)
    /\ voxelMesh = NoMesh
    /\ released = {}
    /\ cursor = <<>>
    /\ service = <<>>
    /\ noise = <<>>
    /\ height = <<>>
    /\ access = NoAccess
    /\ earlier = <<>>
    /\ thrown = {}

NextCells == SetBlock

SpecCells == InitCells /\ [][NextCells]_vars

(***************************************************************************)
(* C25.  Distinct in-bounds coordinates address distinct cells, for every  *)
(* shape of chunk: setBlock(x, y, z, id) makes getBlock(x, y, z) return id *)
(* and leaves what getBlock returns at every other in-bounds coordinate    *)
(* unchanged.                                                              *)
(***************************************************************************)
C25_Step ==
    input'.fn = "setBlock" =>
        /\ getBlock(shape, voxelData', input'.x, input'.y, input'.z) = input'.id
        /\ \A c \in Cells(shape) \ {<<input'.x, input'.y, input'.z>>} :
              getBlock(shape, voxelData', c[1], c[2], c[3])
                  = getBlock(shape, voxelData, c[1], c[2], c[3])

C25_DistinctCells == [][C25_Step]_vars

-----------------------------------------------------------------------------
(***************************************************************************)
(* VoxelChunk.buildMesh and VoxelChunk.dispose (voxelChunk.js:73-181).     *)
(* A mesh is its geometry (numbered in the order of creation) and the      *)
(* quads the geometry holds, a quad being the voxel and the face direction *)
(* it was emitted for; all meshes of a chunk share this.material.          *)
(***************************************************************************)
\* const faceDirs, voxelChunk.js:82-89 (the dir of each entry)
faceDirs ==
    << <<1, 0, 0>>, <<-1, 0, 0>>, <<0, 1, 0>>, <<0, -1, 0>>, <<0, 0, 1>>, <<0, 0, -1>> >>

\* the test of voxelChunk.js:94: !this.getBlock(x, y, z) skips the voxel
Truthy(v) == v # 0 /\ v # Undefined

\* the faces buildMesh emits: for each voxel passing line 94, each direction
\* whose neighbour passes the test of line 97, getBlock(nx, ny, nz) === 0
Quads(sh, d) ==
    {q \in Cells(sh) \X (1..Len(faceDirs)) :
        LET c == q[1]
            dir == faceDirs[q[2]]
        IN  /\ Truthy(getBlock(sh, d, c[1], c[2], c[3]))
            /\ getBlock(sh, d, c[1] + dir[1], c[2] + dir[2], c[3] + dir[3]) = 0}

\* four vertices and two triangles pushed per face, voxelChunk.js:147-158
Vertices(m) == 4 * Cardinality(m.quads)
Triangles(m) == 2 * Cardinality(m.quads)

\* what this.dispose() disposes of, voxelChunk.js:179-180
Disposal(m) == {<<"geometry", m.geometry>>, <<"material", 0>>}

\* geometries created for one chunk
MaxBuilds == 2

\* buildMesh(), voxelChunk.js:73-176; line 172 disposes of the mesh replaced
BuildMesh ==
    /\ voxelMesh.geometry < MaxBuilds
    /\ released' = IF voxelMesh # NoMesh THEN released \cup Disposal(voxelMesh)
                   ELSE released
    /\ voxelMesh' = [geometry |-> voxelMesh.geometry + 1,
                     quads |-> Quads(shape, voxelData)]
    /\ UNCHANGED <<shape, voxelData, cursor, service, noise, height, access,
                   earlier, thrown, managerVars, pureVars>>

\* dispose(), voxelChunk.js:178-181: this.mesh.geometry of a null mesh is a
\* TypeError
Dispose ==
    /\ IF voxelMesh = NoMesh
       THEN thrown' = thrown \cup {"TypeError"} /\ UNCHANGED released
       ELSE released' = released \cup Disposal(voxelMesh) /\ UNCHANGED thrown
    /\ UNCHANGED <<shape, voxelData, voxelMesh, cursor, service, noise, height,
                   access, earlier, managerVars, pureVars>>

InitMesh == InitManager /\ SomeChunk /\ NoPure

NextMesh == BuildMesh \/ Dispose

SpecMesh == InitMesh /\ [][NextMesh]_vars

(***************************************************************************)
(* C16.  The mesh buildMesh builds holds exactly one quad, of 4 vertices   *)
(* and 2 triangles, for each solid voxel and each of the six directions in *)
(* which the neighbouring voxel is empty, a neighbour outside the chunk    *)
(* being empty; a 1x1x1 chunk with its voxel solid gives 6 quads, 24       *)
(* vertices and 12 triangles.  A voxel is solid when getBlock gives a      *)
(* block for it, empty otherwise.                                          *)
(***************************************************************************)
C16_Solid(x, y, z) == Truthy(getBlock(shape, voxelData, x, y, z))

C16_Expected ==
    {q \in Cells(shape) \X (1..6) :
        LET c == q[1]
            dir == faceDirs[q[2]]
        IN  /\ C16_Solid(c[1], c[2], c[3])
            /\ ~ C16_Solid(c[1] + dir[1], c[2] + dir[2], c[3] + dir[3])}

C16_QuadPerExposedFace ==
    voxelMesh # NoMesh =>
        /\ voxelMesh.quads = C16_Expected
        /\ Vertices(voxelMesh) = 4 * Cardinality(C16_Expected)
        /\ Triangles(voxelMesh) = 2 * Cardinality(C16_Expected)
        /\ (shape.size = 1 /\ shape.maxHeight = 1 /\ voxelData[0] = 1) =>
              /\ Cardinality(voxelMesh.quads) = 6
              /\ Vertices(voxelMesh) = 24
              /\ Triangles(voxelMesh) = 12

(***************************************************************************)
(* C17.  dispose() raises no error, neither on a chunk whose mesh was      *)
(* never built nor after buildMesh replaced an earlier mesh.               *)
(***************************************************************************)
C17_DisposeNeverThrows == thrown = {}

-----------------------------------------------------------------------------
(***************************************************************************)
(* Terrain generation: VoxelChunk._initTerrain (voxelChunk.js:20-58) as    *)
(* _generateChunk runs it (frame.js:85-103).  The constructor starts one   *)
(* pass (A, never awaited) and _generateChunk awaits a second one (B) on   *)
(* the same chunk; with an elevation service each pass suspends at the     *)
(* await of every column, so a step is what one pass does for one column   *)
(* once the elevation query has answered.  Without a service a pass never  *)
(* suspends.                                                               *)
(*                                                                         *)
(* The elevation service is an object handed to the chunk: for each column *)
(* it answers the height query with an elevation (metres) or fails, says   *)
(* which levels of the column are carved, and may raise an error from the  *)
(* occupancy query.  It answers the same question the same way every time. *)
(* The simplex noise is a value in [-1, 1], in thousandths; createNoise2D  *)
(* () with no argument seeds the noise from Math.random, so what a chunk's *)
(* noise returns for a column is chosen when the chunk first asks.         *)
(***************************************************************************)
TerrainSize == 2
TerrainHeight == 7
PlainHeight == 2

TerrainShapes ==
    {Shape(TerrainSize, TerrainHeight, TRUE), Shape(TerrainSize, PlainHeight, FALSE)}

Columns(sh) == (0..(sh.size - 1)) \X (0..(sh.size - 1))

\* the i-th column of the loops of voxelChunk.js:22-23, z outside and x inside
ColumnAt(sh, i) == <<i % sh.size, i \div sh.size>>

\* the position of a pass: the number of the column whose elevation it awaits,
\* Resolved(sh) once it has returned, Rejected once it has thrown
Resolved(sh) == sh.size * sh.size
Rejected == -1

Elevations == {0, 10000}
Noises == {-1000, 0, 1000}

\* What the service may answer, by column: the height query of column (1, 0)
\* may fail, the occupancy query of column (1, 1) may raise an error, level 1
\* of column (0, 0) may be carved.
Answers(col) ==
    [elevation : Elevations,
     fails : IF col = <<1, 0>> THEN BOOLEAN ELSE {FALSE},
     carved : IF col = <<0, 0>> THEN {{}, {1}} ELSE {{}},
     raises : IF col = <<1, 1>> THEN BOOLEAN ELSE {FALSE}]

Providers(sh) ==
    IF ~ sh.elevationService THEN {<<>>}
    ELSE {f \in [Columns(sh) -> UNION {Answers(col) : col \in Columns(sh)}] :
             /\ \A col \in Columns(sh) : f[col] \in Answers(col)
             /\ \A col \in Columns(sh) : f[col].fails => f[col].elevation = 0}

Min(a, b) == IF a <= b THEN a ELSE b

\* voxelChunk.js:30
ElevationToHeight(sh, elevation) ==
    Max(1, Min(sh.maxHeight - 1, (elevation \div 100) + 5))

\* A fallback without the final + 1.
NoiseHeight_Unshifted(sh, n) == ((n + 1000) * (sh.maxHeight - 1)) \div 2000

\* _getNoiseHeight, voxelChunk.js:55-58, for the noise value n / 1000
NoiseHeight(sh, n) == (((n + 1000) * (sh.maxHeight - 1)) \div 2000) + 1

\* the loop of voxelChunk.js:40-50 for column (x, z), from level y on: the
\* array after it.  carved holds the levels where shouldBlockExist is false.
RECURSIVE FillColumn(_, _, _, _, _, _, _)
FillColumn(sh, d, x, z, y, elevation, carved) ==
    IF ~ (y < elevation) THEN d
    ELSE FillColumn(sh,
                    IF sh.elevationService /\ y \in carved THEN d
                    ELSE setBlock(sh, d, x, y, z, 1),
                    x, z, y + 1, elevation, carved)

\* a whole pass of a chunk without elevation service, from column i on, with
\* the noise function nf
RECURSIVE FillAll(_, _, _, _)
FillAll(sh, d, nf, i) ==
    IF i >= Resolved(sh) THEN d
    ELSE LET col == ColumnAt(sh, i) IN
         FillAll(sh, FillColumn(sh, d, col[1], col[2], 0, NoiseHeight(sh, nf[col]), {}),
                 nf, i + 1)

TerrainKey == chunkKey(shape.chunkX, shape.chunkZ)

TerrainTask == Task(shape.chunkX, shape.chunkZ, TerrainKey)

\* no chunk generated yet; the manager is given some elevation service
InitTerrain ==
    /\ InitManager
    /\ NoPure
    /\ shape \in TerrainShapes
    /\ service \in Providers(shape)
    /\ voxelData = <<>>
    /\ voxelMesh = NoMesh
    /\ released = {}
    /\ cursor = <<>>
    /\ noise = <<>>
    /\ height = <<>>
    /\ access = NoAccess
    /\ earlier = <<>>
    /\ thrown = {}

\* loadChunksAround finds the key neither loaded nor in-flight, marks it and
\* calls _generateChunk (frame.js:68-71), which runs up to its first await:
\* new VoxelChunk(...) starts pass A, await chunk._initTerrain() starts pass
\* B (frame.js:87-89).  Without elevation service both passes run to their
\* end at once.
Start ==
    /\ NeedsTask(TerrainKey, loadingChunks)
    /\ nextEntityId < MaxEntities
    /\ loadingChunks' = loadingChunks \cup {TerrainKey}
    /\ tasks' = tasks (+) SetToBag({TerrainTask})
    /\ voxelMesh' = NoMesh
    /\ IF shape.elevationService
       THEN /\ voxelData' = NewData(shape.size, shape.maxHeight)
            /\ cursor' = [A |-> 0, B |-> 0]
            /\ noise' = <<>>
            /\ height' = <<>>
       ELSE \E nf \in [Columns(shape) -> Noises] :
               /\ voxelData' = FillAll(shape, NewData(shape.size, shape.maxHeight), nf, 0)
               /\ cursor' = [A |-> Resolved(shape), B |-> Resolved(shape)]
               /\ noise' = nf
               /\ height' = [col \in Columns(shape) |-> NoiseHeight(shape, nf[col])]
    /\ UNCHANGED <<shape, released, service, access, earlier, thrown, chunks, stalled,
                   scene, disposed, nextEntityId, world, errors, hist, atCall, last,
                   pureVars>>

\* what pass p does for column col once its height is known, voxelChunk.js:
\* 40-50: it fills the column, or the occupancy query throws out of the pass
TerrainColumn(p, col, elevation, answer, noiseAfter) ==
    /\ noise' = noiseAfter
    /\ height' = MapSet(height, col, elevation)
    /\ IF answer.raises
       THEN /\ cursor' = [cursor EXCEPT ![p] = Rejected]
            /\ voxelData' = voxelData
            /\ thrown' = IF p = "A" THEN thrown \cup {"UnhandledRejection"} ELSE thrown
       ELSE /\ cursor' = [cursor EXCEPT ![p] = @ + 1]
            /\ voxelData' = FillColumn(shape, voxelData, col[1], col[2], 0, elevation,
                                       answer.carved)
            /\ thrown' = thrown

\* the elevation query of the column pass p waits on answers, voxelChunk.js:
\* 26-37: the height is the scaled elevation, or the noise height if the
\* query failed
Column(p) ==
    /\ DOMAIN cursor = {"A", "B"}
    /\ cursor[p] \in 0..(Resolved(shape) - 1)
    /\ LET col == ColumnAt(shape, cursor[p])
           answer == service[col]
       IN  IF answer.fails
           THEN \E n \in Noises :
                   /\ col \in DOMAIN noise => noise[col] = n
                   /\ TerrainColumn(p, col, NoiseHeight(shape, n), answer,
                                    MapSet(noise, col, n))
           ELSE TerrainColumn(p, col, ElevationToHeight(shape, answer.elevation),
                              answer, noise)
    /\ UNCHANGED <<shape, voxelMesh, released, service, access, earlier, managerVars,
                   pureVars>>

PassA == Column("A")

PassB == Column("B")

\* pass B has returned: the rest of _generateChunk, frame.js:91-97 and
\* 100-102, builds the mesh and inserts the chunk
Complete ==
    /\ DOMAIN cursor = {"A", "B"}
    /\ cursor.B = Resolved(shape)
    /\ Succeed(TerrainTask)
    /\ voxelMesh' = [geometry |-> voxelMesh.geometry + 1,
                     quads |-> Quads(shape, voxelData)]
    /\ UNCHANGED <<shape, voxelData, released, cursor, service, noise, height,
                   access, earlier, thrown, atCall, pureVars>>

\* pass B has thrown: the catch and finally blocks of _generateChunk,
\* frame.js:98-102
Reject ==
    /\ DOMAIN cursor = {"A", "B"}
    /\ cursor.B = Rejected
    /\ errors < MaxErrors
    /\ Fail(TerrainTask)
    /\ UNCHANGED <<voxelVars, atCall, pureVars>>

\* the chunk is unloaded (reset, frame.js:105-112) once its generation is over;
\* the grid it had is remembered
Unload ==
    /\ TerrainKey \in DOMAIN chunks
    /\ cursor.A \in {Resolved(shape), Rejected}
    /\ earlier = <<>>
    /\ Reset
    /\ earlier' = voxelData
    /\ UNCHANGED <<shape, voxelData, voxelMesh, released, cursor, service, noise,
                   height, access, thrown, atCall, pureVars>>

NextTerrain == Start \/ PassA \/ PassB \/ Complete \/ Reject \/ Unload

SpecTerrain == InitTerrain /\ [][NextTerrain]_vars

\* both passes of the chunk have returned
TerrainDone ==
    /\ DOMAIN cursor = {"A", "B"}
    /\ cursor.A = Resolved(shape)
    /\ cursor.B = Resolved(shape)

(***************************************************************************)
(* C12.  Once terrain generation has completed for a chunk with the        *)
(* manager's proportions (an elevation service, maxHeight above size), a   *)
(* voxel (x, y, z) in bounds reads as solid exactly when y is below the    *)
(* height of column (x, z) and shouldBlockExist is true there; at or above *)
(* the height of its column every voxel reads as empty.                    *)
(***************************************************************************)
C12_SolidBelowHeightOnly ==
    (TerrainDone /\ shape.elevationService) =>
        \A c \in Cells(shape) :
            LET col == <<c[1], c[3]>> IN
            getBlock(shape, voxelData, c[1], c[2], c[3]) = 1
                <=> (c[2] < height[col] /\ c[2] \notin service[col].carved)

(***************************************************************************)
(* C13.  An error raised by shouldBlockExist for a column does not make    *)
(* generateTerrain fail: no pass of _initTerrain ends by throwing, so no   *)
(* rejection goes unhandled and _generateChunk logs no failed generation.  *)
(***************************************************************************)
C13_OccupancyErrorContained ==
    DOMAIN cursor = {"A", "B"} =>
        /\ cursor.A # Rejected
        /\ cursor.B # Rejected
        /\ thrown = {}
        /\ errors = 0

(***************************************************************************)
(* C14.  Every column gets an integer height in [1, maxHeight]: the        *)
(* elevation the service answers, floor(elevation / 100) + 5 clamped into  *)
(* [1, maxHeight - 1], or, if the height query failed for the column, a    *)
(* fallback height in [1, maxHeight].  A failed height query ends no pass  *)
(* and changes the height of no other column, and unless the occupancy     *)
(* query raises an error generation never fails.                           *)
(***************************************************************************)
C14_Scaled(elevation) ==
    LET blocks == ((elevation - (elevation % 100)) \div 100) + 5 IN
    IF blocks < 1 THEN 1
    ELSE IF blocks > shape.maxHeight - 1 THEN shape.maxHeight - 1
    ELSE blocks

C14_State ==
    /\ \A col \in DOMAIN height :
          /\ height[col] \in 1..shape.maxHeight
          /\ IF shape.elevationService /\ ~ service[col].fails
             THEN /\ height[col] = C14_Scaled(service[col].elevation)
                  /\ height[col] <= shape.maxHeight - 1
             ELSE col \in DOMAIN noise
    /\ (DOMAIN cursor = {"A", "B"} /\ \A col \in DOMAIN service : ~ service[col].raises) =>
          /\ cursor.A # Rejected
          /\ cursor.B # Rejected
          /\ errors = 0

C14_Step ==
    \A p \in {"A", "B"} :
        (/\ DOMAIN cursor = {"A", "B"}
         /\ cursor[p] \in 0..(Resolved(shape) - 1)
         /\ tasks' = tasks
         /\ cursor'[p] # cursor[p]
         /\ service[ColumnAt(shape, cursor[p])].fails
         /\ ~ service[ColumnAt(shape, cursor[p])].raises) =>
            /\ cursor'[p] = cursor[p] + 1
            /\ ColumnAt(shape, cursor[p]) \in DOMAIN height'
            /\ \A col \in DOMAIN height :
                  col # ColumnAt(shape, cursor[p]) =>
                      col \in DOMAIN height' /\ height'[col] = height[col]
            /\ thrown' = thrown

C14_ColumnHeights == [](C14_State) /\ [][C14_Step]_vars

\* a chunk was inserted whose column (1, 0) failed its height query and got the
\* fallback height maxHeight, next to a column at the upper clamp maxHeight - 1
C14_Witness ==
    /\ TerrainDone
    /\ TerrainKey \in DOMAIN chunks
    /\ shape.elevationService
    /\ service[<<1, 0>>].fails
    /\ height[<<1, 0>>] = shape.maxHeight
    /\ height[<<0, 0>>] = shape.maxHeight - 1
    /\ height[<<0, 1>>] = 5

(***************************************************************************)
(* C15.  A chunk generated again for the same coordinates with the same    *)
(* elevation service, after an unload, has the voxel grid the first        *)
(* generation had, fallback columns included.                              *)
(***************************************************************************)
C15_ReloadReproduces ==
    (/\ TerrainDone
     /\ shape.elevationService
     /\ TerrainKey \in DOMAIN chunks
     /\ earlier # <<>>) =>
        voxelData = earlier

(***************************************************************************)
(* C26.  One terrain pass per generation task: the pass the constructor    *)
(* starts and the pass _generateChunk awaits never both write the grid of  *)
(* the chunk, and once buildMesh has run and the chunk is in the loaded    *)
(* map no pass writes its grid any more, however late the elevation        *)
(* provider answers.  (A pass that has gone past the first column has      *)
(* called setBlock: every column is at least one voxel high and its voxel  *)
(* at y = 0 is never carved.)                                              *)
(***************************************************************************)
C26_OnePassWrites ==
    DOMAIN cursor = {"A", "B"} => ~ (cursor.A >= 1 /\ cursor.B >= 1)

C26_Step ==
    (/\ TerrainKey \in DOMAIN chunks
     /\ TerrainKey \in DOMAIN chunks'
     /\ chunks'[TerrainKey] = chunks[TerrainKey]) =>
        (cursor' = cursor /\ voxelData' = voxelData)

C26_SinglePass == [](C26_OnePassWrites) /\ [][C26_Step]_vars

-----------------------------------------------------------------------------
(***************************************************************************)
(* The queries of an ElevationService and the fields of the object         *)
(* (part_007:3-248).  The noise is floating-point trigonometry; what the   *)
(* model keeps of a result is what the code makes it depend on: the        *)
(* method, its arguments, and the fields read by the method and by the     *)
(* methods it calls.  No method reads anything else (no Math.random, no    *)
(* clock, no variable outside the object).                                 *)
(***************************************************************************)
\* the constructor, part_007:3-35; fractions in thousandths
ServiceFields ==
    [worldSeed |-> worldSeed, scale |-> 100, octaves |-> 4, lacunarity |-> 2000,
     persistence |-> 500, domainWarpFrequency |-> 5, domainWarpAmplitude |-> 50,
     largeTerrainAmplitude |-> 3500, mediumHillsAmplitude |-> 1500,
     ridgedAmplitude |-> 800, smallDetailAmplitude |-> 600,
     fineDetailAmplitude |-> 200, caveScale1 |-> 15, caveScale2 |-> 40,
     caveScale3 |-> 80, caveThreshold |-> caveThreshold,
     surfaceCutoff |-> surfaceCutoff, shallowCaveDepth |-> shallowCaveDepth,
     midDepthCutoff |-> midDepthCutoff, deepCaveDepth |-> deepCaveDepth,
     baseElevation |-> 300]

Queries ==
    {"hash", "noise2D", "noise3D", "domainWarp", "ridgedNoise2D", "getElevation",
     "getElevationForChunk", "shouldCarveBlock", "shouldBlockExist"}

\* the fields named this.<field> in the body of a method
OwnReads(fn) ==
    CASE fn = "hash" -> {"worldSeed"}
      [] fn = "domainWarp" -> {"domainWarpFrequency", "domainWarpAmplitude"}
      [] fn = "getElevation" ->
            {"scale", "octaves", "lacunarity", "persistence", "largeTerrainAmplitude",
             "mediumHillsAmplitude", "smallDetailAmplitude", "fineDetailAmplitude",
             "baseElevation"}
      [] fn = "getElevationForChunk" -> {"scale"}
      [] fn = "shouldCarveBlock" ->
            {"surfaceCutoff", "caveScale1", "caveScale2", "caveScale3", "caveThreshold",
             "shallowCaveDepth", "midDepthCutoff", "deepCaveDepth"}
      [] OTHER -> {}

\* the methods called in the body of a method
Calls(fn) ==
    CASE fn = "noise2D" -> {"hash"}
      [] fn = "noise3D" -> {"noise2D"}
      [] fn = "domainWarp" -> {"noise2D"}
      [] fn = "ridgedNoise2D" -> {"noise2D"}
      [] fn = "getElevation" -> {"domainWarp", "noise2D", "ridgedNoise2D"}
      [] fn = "getElevationForChunk" -> {"getElevation"}
      [] fn = "shouldCarveBlock" -> {"noise3D"}
      [] fn = "shouldBlockExist" -> {"shouldCarveBlock"}
      [] OTHER -> {}

RECURSIVE Reads(_)
Reads(fn) == OwnReads(fn) \cup UNION {Reads(g) : g \in Calls(fn)}

\* what a query returns, as far as the code determines it
Value(f, fn, args) == [fn |-> fn, args |-> args, of |-> [k \in Reads(fn) |-> f[k]]]

\* A service whose elevation query moves the seed.
AfterQuery_Reseeds(f, fn) ==
    IF fn = "getElevation" THEN [f EXCEPT !.worldSeed = @ + 1] ELSE f

\* The fields after a query: no method body of part_007:38-248 assigns to a
\* field of the object.
AfterQuery(f, fn) == f

MaxQueries == 3
QueryArgs == {<<0, 0>>, <<1, 0>>}

InitQuery ==
    /\ InitManager
    /\ NoVoxel
    /\ input = <<>>
    /\ output = Pending
    /\ fields = ServiceFields
    /\ queries = <<>>

Query(fn) ==
    \E args \in QueryArgs :
        /\ Len(queries) < MaxQueries
        /\ input' = [fn |-> fn, args |-> args]
        /\ output' = ReturnedBy(fn, Value(fields, fn, args))
        /\ fields' = AfterQuery(fields, fn)
        /\ queries' = Append(queries, [fn |-> fn, args |-> args,
                                       value |-> Value(fields, fn, args)])
        /\ UNCHANGED <<managerVars, voxelVars>>

NextQuery == \E fn \in Queries : Query(fn)

SpecQuery == InitQuery /\ [][NextQuery]_vars

=============================================================================
